---- MODULE Spec2Model ----
(***************************************************************************)
(* The CRM mutation service of crm/schema.py over the entity store of      *)
(* crm/models.py.                                                          *)
(*                                                                         *)
(* A table is a sequence of rows; a row's primary key is its position.     *)
(* Every mutation is an operator from (store, input) to the response it    *)
(* returns together with the store it leaves; the actions apply them.      *)
(* Money is counted in cents, a price given to createProduct in            *)
(* thousandths (a graphene.Decimal may carry more than two decimals).      *)
(***************************************************************************)
EXTENDS Integers, Sequences, FiniteSets, TLC

VARIABLES
    customers,   \* table crm_customer : Seq of [name, email, phone]
    products,    \* table crm_product  : Seq of [name, price, stock]
    orders,      \* table crm_order with its products relation :
                 \*   Seq of [customer, products, total_amount, order_date]
    response,    \* what the last mutation or job returned : [op, success, message]
    pc,          \* per request handler: the statement it is about to run
    tx,          \* per request handler: its locals and uncommitted writes
    logs         \* the log files of the scheduled jobs, each a Seq of lines, and
                 \*   whether they can be opened for appending

vars == <<customers, products, orders, response, pc, tx, logs>>

(***************************************************************************)
(* Bounds of the model.                                                    *)
(***************************************************************************)
MaxRows == 4     \* rows in the three tables together
MaxBatch == 2    \* entries of one bulkCreateCustomers input
MaxIds == 2      \* entries of one createOrder productIds list
MaxOrders == 2   \* createOrder transactions, open or committed, under TxSpec
MaxLogLines == 3 \* lines in the log files together when a job may still start

(***************************************************************************)
(* Optional values: None, or a one-element sequence.                       *)
(***************************************************************************)
None == << >>
Some(x) == <<x>>

(***************************************************************************)
(* Input domains.  A phone is a sequence of characters; the empty sequence *)
(* is an omitted (or empty) phone, which Python treats as false.           *)
(***************************************************************************)
Names == {"Alice"}
Emails == {"a@x.com", "b@x.com"}
NoPhone == << >>
GoodPhone == <<"+", "1", "-", "2", "3", "4", "-", "5", "6", "7", "-", "8", "9", "0", "0">>
BadPhone == <<"a", "b", "c">>
Phones == {NoPhone, GoodPhone, BadPhone}
CustomerInputs == [name : Names, email : Emails, phone : Phones]

PriceInputs == {-1000, 0, 4, 1500, 2500}   \* thousandths: -1.000, 0, 0.004, 1.500, 2.500
StockInputs == {-1, 0}
ProductInputs == [name : {"Widget"}, price : PriceInputs, stock : StockInputs]

Times == {2}                     \* the value of datetime.now() when an order is created
DateInputs == {None, Some(1)}    \* orderDate omitted, or given (an earlier time)

SeqsUpTo(S, n) == UNION {[1..k -> S] : k \in 0..n}

(***************************************************************************)
(* CreateCustomer.validate_phone: re.match of                              *)
(*   ^\+?\d{1,3}[-.\s]?\(?\d{1,4}\)?[-.\s]?\d{1,4}[-.\s]?\d{1,9}$          *)
(* computed as the set of positions the pattern can have reached.          *)
(***************************************************************************)
Digit == {"0", "1", "2", "3", "4", "5", "6", "7", "8", "9"}
Separator == {"-", ".", " ", "\t", "\n"}

OptChar(s, P, C) ==
    P \cup {i + 1 : i \in {j \in P : j <= Len(s) /\ s[j] \in C}}

DigitRun(s, P, lo, hi) ==
    {q \in 1..(Len(s) + 1) :
        \E i \in P : /\ q - i \in lo..hi
                     /\ \A j \in i..(q - 1) : s[j] \in Digit}

PhoneMatches(s) ==
    LET p1  == OptChar(s, {1}, {"+"})
        p2  == DigitRun(s, p1, 1, 3)
        p3  == OptChar(s, p2, Separator)
        p4  == OptChar(s, p3, {"("})
        p5  == DigitRun(s, p4, 1, 4)
        p6  == OptChar(s, p5, {")"})
        p7  == OptChar(s, p6, Separator)
        p8  == DigitRun(s, p7, 1, 4)
        p9  == OptChar(s, p8, Separator)
        p10 == DigitRun(s, p9, 1, 9)
    IN  \/ Len(s) + 1 \in p10
        \/ Len(s) \in p10 /\ s[Len(s)] = "\n"    \* $ also matches before a final newline

validate_phone(phone) ==
    IF phone = NoPhone THEN TRUE ELSE PhoneMatches(phone)

(***************************************************************************)
(* The Customer table.  email carries no unique constraint; phone is a     *)
(* CharField without null=True, so its column is NOT NULL and an INSERT of *)
(* NULL raises IntegrityError.                                             *)
(***************************************************************************)
Null == << >>

\* (variant: the query looks at one row only)
email_exists_first(cs, email) ==
    Len(cs) >= 1 /\ cs[1].email = email

\* Customer.objects.filter(email=...).exists()
email_exists(cs, email) ==
    \E i \in 1..Len(cs) : cs[i].email = email

Customer_create(cs, row) ==
    IF row.phone = Null
    THEN [ok |-> FALSE, rows |-> cs]
    ELSE [ok |-> TRUE, rows |-> Append(cs, row)]

\* (variant: the lookup accepts the id one past the last row)
Customer_get_off_by_one(cs, id) ==
    IF id \in 1..(Len(cs) + 1) THEN Some(id) ELSE None

\* Customer.objects.get(pk=id); None stands for Customer.DoesNotExist
Customer_get(cs, id) ==
    IF id \in 1..Len(cs) THEN Some(cs[id]) ELSE None

\* Query.resolve_customer
resolve_customer(cs, id) == Customer_get(cs, id)

(***************************************************************************)
(* CreateCustomer.mutate                                                   *)
(***************************************************************************)
CustomerRow(input) ==
    [name  |-> input.name,
     email |-> input.email,
     phone |-> IF input.phone # NoPhone THEN input.phone ELSE Null]

\* The two early returns: the email is taken, or the phone is malformed.
CreateCustomer_check(cs, input) ==
    IF email_exists(cs, input.email) THEN "Email already exists"
    ELSE IF input.phone # NoPhone /\ ~validate_phone(input.phone)
    THEN "Invalid phone format"
    ELSE "ok"

\* Customer.objects.create and the two returns that follow it.
CreateCustomer_insert(cs, input) ==
    LET ins == Customer_create(cs, CustomerRow(input))
    IN  IF ins.ok
        THEN [success |-> TRUE, message |-> "Customer created successfully",
              customer |-> Len(ins.rows), customers |-> ins.rows]
        ELSE [success |-> FALSE, message |-> "Error creating customer",
              customer |-> 0, customers |-> cs]

CreateCustomer_mutate(cs, input) ==
    LET check == CreateCustomer_check(cs, input)
    IN  IF check # "ok"
        THEN [success |-> FALSE, message |-> check,
              customer |-> 0, customers |-> cs]
        ELSE CreateCustomer_insert(cs, input)

(***************************************************************************)
(* transaction.atomic(): the rows written inside the block reach the table *)
(* when the block commits and are dropped when it is rolled back.          *)
(***************************************************************************)
\* (variant: no transaction, so what was written before the exception stays)
no_rollback(table, written) == table \o written

\* What a transaction that is rolled back leaves in a table.
rollback(table, written) == table

\* What a transaction that commits leaves in a table.
commit(table, written) == table \o written

(***************************************************************************)
(* BulkCreateCustomers.mutate: one pass over the input inside one          *)
(* transaction; an entry that fails adds an error and the loop goes on.    *)
(* bulk_entry is one iteration of the loop.  st.written are the rows the   *)
(* transaction has inserted, st.created the created_customers list.        *)
(*                                                                         *)
(* An INSERT that raises inside the atomic block marks the transaction for *)
(* rollback (Model.save_base runs under mark_for_rollback_on_error): from  *)
(* then on every query of the block raises TransactionManagementError,     *)
(* which the loop's except clause turns into one more error entry, and the *)
(* exit of the block rolls the transaction back without raising.           *)
(* st.fail_at is the entry, if any, at which the store fails the INSERT.   *)
(***************************************************************************)
bulk_entry(st, idx, data) ==
    IF st.broken
    THEN [st EXCEPT !.errors = Append(@, [idx |-> idx, kind |-> "exception"])]
    ELSE IF email_exists(st.rows \o st.written, data.email)
    THEN [st EXCEPT !.errors = Append(@, [idx |-> idx, kind |-> "already exists"])]
    ELSE IF data.phone # NoPhone /\ ~validate_phone(data.phone)
    THEN [st EXCEPT !.errors = Append(@, [idx |-> idx, kind |-> "Invalid phone format"])]
    ELSE LET ins == IF st.fail_at = idx
                    THEN [ok |-> FALSE, rows |-> st.rows \o st.written]
                    ELSE Customer_create(st.rows \o st.written, CustomerRow(data))
         IN  IF ins.ok
             THEN [st EXCEPT !.written = Append(@, ins.rows[Len(ins.rows)]),
                             !.created = Append(@, Len(ins.rows))]
             ELSE [st EXCEPT !.errors = Append(@, [idx |-> idx, kind |-> "exception"]),
                             !.broken = TRUE]

RECURSIVE bulk_loop(_, _, _)
bulk_loop(st, input, idx) ==
    IF idx > Len(input) THEN st
    ELSE bulk_loop(bulk_entry(st, idx, input[idx]), input, idx + 1)

\* The state of the handler when it enters the atomic block.
bulk_begin(cs, fail_at) ==
    [rows |-> cs, written |-> << >>, created |-> << >>, errors |-> << >>,
     broken |-> FALSE, fail_at |-> fail_at]

\* The exit of the atomic block when the store does not fail there, and the return.
bulk_return(st) ==
    [customers_created |-> st.created,
     errors    |-> IF st.errors # << >> THEN Some(st.errors) ELSE None,
     success   |-> Len(st.created) > 0,
     customers |-> IF st.broken THEN rollback(st.rows, st.written)
                   ELSE commit(st.rows, st.written)]

BulkCreateCustomers_mutate(cs, input) ==
    bulk_return(bulk_loop(bulk_begin(cs, 0), input, 1))

(***************************************************************************)
(* The Product table.  price is DecimalField(max_digits=10,                *)
(* decimal_places=2): a value is quantized to two decimals, half to even,  *)
(* when it is written.  Quantize takes thousandths and gives cents.        *)
(***************************************************************************)
Quantize(m) ==
    LET a == IF m < 0 THEN -m ELSE m
        q == a \div 10
        r == a % 10
        c == IF r < 5 THEN q
             ELSE IF r > 5 THEN q + 1
             ELSE IF q % 2 = 0 THEN q ELSE q + 1
    IN  IF m < 0 THEN -c ELSE c

Product_create(ps, input) ==
    Append(ps, [name  |-> input.name,
                price |-> Quantize(input.price),
                stock |-> input.stock])

(***************************************************************************)
(* CreateProduct.mutate                                                    *)
(***************************************************************************)
CreateProduct_mutate(ps, input) ==
    IF input.price <= 0
    THEN [success |-> FALSE, message |-> "Price must be positive",
          product |-> 0, products |-> ps]
    ELSE IF input.stock < 0
    THEN [success |-> FALSE, message |-> "Stock cannot be negative",
          product |-> 0, products |-> ps]
    ELSE LET rows == Product_create(ps, input)
         IN  [success |-> TRUE, message |-> "Product created successfully",
              product |-> Len(rows), products |-> rows]

(***************************************************************************)
(* The Order table and its many-to-many relation to Product.               *)
(* order_date is DateTimeField(auto_now_add=True): on INSERT its pre_save  *)
(* puts the current time in the field, whatever value the caller gave.     *)
(***************************************************************************)
order_date_pre_save(value, now) == now

Order_create(customer, order_date, now) ==
    [customer     |-> customer,
     products     |-> {},
     total_amount |-> 0,
     order_date   |-> order_date_pre_save(order_date, now)]

products_set(order, prods) ==
    [order EXCEPT !.products = {prods[i] : i \in 1..Len(prods)}]

RECURSIVE SumPrices(_, _)
SumPrices(ps, S) ==
    IF S = {} THEN 0
    ELSE LET p == CHOOSE x \in S : TRUE
         IN  ps[p].price + SumPrices(ps, S \ {p})

calculate_total(ps, order) == SumPrices(ps, order.products)

\* (variant: the computed total is never written to the row)
Order_save_not_written(order, total) == order

\* order.save(): the row takes the instance's total_amount
Order_save(order, total) == [order EXCEPT !.total_amount = total]

\* Product.objects.get(pk=id); None stands for Product.DoesNotExist
Product_get(ps, id) ==
    IF id \in 1..Len(ps) THEN Some(ps[id]) ELSE None

(***************************************************************************)
(* CreateOrder.mutate.  validate_products is the loop over product_ids: it *)
(* returns at the first id that does not resolve.                          *)
(***************************************************************************)
\* (variant: an id that does not resolve is skipped and the loop goes on)
RECURSIVE validate_products_skip(_, _, _, _)
validate_products_skip(ps, ids, k, acc) ==
    IF k > Len(ids) THEN [ok |-> TRUE, products |-> acc, missing |-> 0]
    ELSE IF Product_get(ps, ids[k]) = None
    THEN validate_products_skip(ps, ids, k + 1, acc)
    ELSE validate_products_skip(ps, ids, k + 1, Append(acc, ids[k]))

\* (variant: the loop runs to the end and reports the last id that does not resolve)
RECURSIVE validate_products_last(_, _, _, _)
validate_products_last(ps, ids, k, acc) ==
    IF k > Len(ids) THEN [ok |-> TRUE, products |-> acc, missing |-> 0]
    ELSE LET rest == validate_products_last(ps, ids, k + 1, Append(acc, ids[k]))
         IN  IF Product_get(ps, ids[k]) # None THEN rest
             ELSE IF rest.ok THEN [ok |-> FALSE, products |-> acc, missing |-> ids[k]]
             ELSE [rest EXCEPT !.products = acc]

RECURSIVE validate_products(_, _, _, _)
validate_products(ps, ids, k, acc) ==
    IF k > Len(ids) THEN [ok |-> TRUE, products |-> acc, missing |-> 0]
    ELSE IF Product_get(ps, ids[k]) = None
    THEN [ok |-> FALSE, products |-> acc, missing |-> ids[k]]
    ELSE validate_products(ps, ids, k + 1, Append(acc, ids[k]))

order_date_argument(input, now) ==
    IF input.order_date # None THEN input.order_date[1] ELSE now

\* (variant: the total is summed over the local list of products, not over the
\* products the order is associated with)
RECURSIVE SumList(_, _)
SumList(ps, prods) ==
    IF prods = << >> THEN 0
    ELSE ps[Head(prods)].price + SumList(ps, Tail(prods))

order_transaction_sums_list(ps, customer, prods, order_date, now) ==
    LET o1 == Order_create(customer, order_date, now)
        o2 == products_set(o1, prods)
    IN  Order_save(o2, SumList(ps, prods))

\* The body of the "with transaction.atomic()" block, when no statement fails.
order_transaction(ps, customer, prods, order_date, now) ==
    LET o1 == Order_create(customer, order_date, now)
        o2 == products_set(o1, prods)
        total == calculate_total(ps, o2)
    IN  Order_save(o2, total)

\* The checks that come before the transaction, with their early returns.
CreateOrder_validate(cs, ps, input) ==
    IF Customer_get(cs, input.customer_id) = None
    THEN [ok |-> FALSE, message |-> "Customer does not exist",
          arg |-> input.customer_id, products |-> << >>]
    ELSE IF Len(input.product_ids) = 0
    THEN [ok |-> FALSE, message |-> "At least one product must be provided",
          arg |-> 0, products |-> << >>]
    ELSE LET v == validate_products(ps, input.product_ids, 1, << >>)
         IN  IF ~v.ok
             THEN [ok |-> FALSE, message |-> "Product does not exist",
                   arg |-> v.missing, products |-> << >>]
             ELSE [ok |-> TRUE, message |-> "ok", arg |-> 0, products |-> v.products]

CreateOrder_mutate(cs, ps, os, input, now) ==
    LET v == CreateOrder_validate(cs, ps, input)
    IN  IF ~v.ok
        THEN [success |-> FALSE, message |-> v.message,
              arg |-> v.arg, order |-> 0, orders |-> os]
        ELSE LET o == order_transaction(ps, input.customer_id, v.products,
                                        order_date_argument(input, now), now)
             IN  [success |-> TRUE, message |-> "Order created successfully",
                  arg |-> o.total_amount, order |-> Len(os) + 1,
                  orders |-> Append(os, o)]

\* The inputs of createOrder in a state: every stored id and one that is not.
OrderInputs ==
    [customer_id : 1..(Len(customers) + 1),
     product_ids : SeqsUpTo(1..(Len(products) + 1), MaxIds),
     order_date  : DateInputs]

\* The same with two ids that are not stored, 0 and the one after the last.
AnyOrderInputs ==
    [customer_id : 1..(Len(customers) + 1),
     product_ids : SeqsUpTo(0..(Len(products) + 1), MaxIds),
     order_date  : DateInputs]

(***************************************************************************)
(* A price written to a stored product from outside the mutation service   *)
(* (the model admits any price the field's validator accepts).             *)
(***************************************************************************)
NewPrices == {150, 250}

Product_set_price(ps, id, price) == [ps EXCEPT ![id].price = price]

(***************************************************************************)
(* updateLowStockProducts, the mutation that crm/cron.py calls.  Every     *)
(* product whose stock is below the threshold gets the restock amount      *)
(* added; the products updated are returned, in table order, as they are   *)
(* after the update.                                                       *)
(***************************************************************************)
LowStockThreshold == 10
RestockAmount == 10

\* (variant: the query has no stock filter, every product is restocked)
is_low_stock_any(product) == TRUE

is_low_stock(product) == product.stock < LowStockThreshold

RECURSIVE restock_loop(_, _, _)
restock_loop(ps, k, updated) ==
    IF k > Len(ps) THEN [products |-> ps, updated |-> updated]
    ELSE IF is_low_stock(ps[k])
    THEN LET stock == ps[k].stock + RestockAmount
         IN  restock_loop([ps EXCEPT ![k].stock = stock], k + 1,
                          Append(updated, [id |-> k, stock |-> stock]))
    ELSE restock_loop(ps, k + 1, updated)

UpdateLowStockProducts_mutate(ps) ==
    LET st == restock_loop(ps, 1, << >>)
    IN  [success |-> TRUE, message |-> ToString(Len(st.updated)),
         updated |-> st.updated, products |-> st.products]

(***************************************************************************)
(* The service handling one request at a time.                             *)
(***************************************************************************)
Procs == {1, 2}
Idle == [op |-> "none"]
EmptyLogs == [heartbeat |-> << >>, low_stock |-> << >>,
              order_reminders |-> << >>, report |-> << >>, writable |-> TRUE]
NoResponse == [op |-> "none", success |-> FALSE, message |-> ""]
Response(op, r) == [op |-> op, success |-> r.success, message |-> r.message]

RowCount == Len(customers) + Len(products) + Len(orders)

Init ==
    /\ customers = << >>
    /\ products = << >>
    /\ orders = << >>
    /\ response = NoResponse
    /\ pc = [p \in Procs |-> "idle"]
    /\ tx = [p \in Procs |-> Idle]
    /\ logs = EmptyLogs

CreateCustomer(input) ==
    LET r == CreateCustomer_mutate(customers, input)
    IN  /\ RowCount < MaxRows
        /\ customers' = r.customers
        /\ response' = Response("createCustomer", r)
        /\ UNCHANGED <<products, orders, pc, tx, logs>>

BulkCreateCustomers(input) ==
    LET r == BulkCreateCustomers_mutate(customers, input)
    IN  /\ RowCount + Len(input) <= MaxRows
        /\ customers' = r.customers
        /\ response' = [op |-> "bulkCreateCustomers", success |-> r.success,
                        message |-> ""]
        /\ UNCHANGED <<products, orders, pc, tx, logs>>

CreateProduct(input) ==
    LET r == CreateProduct_mutate(products, input)
    IN  /\ RowCount < MaxRows
        /\ products' = r.products
        /\ response' = Response("createProduct", r)
        /\ UNCHANGED <<customers, orders, pc, tx, logs>>

\* (variant: a created order takes one unit from the stock of each of its products)
CreateOrder_takes_stock(input, now) ==
    LET r == CreateOrder_mutate(customers, products, orders, input, now)
        taken == IF r.success THEN r.orders[r.order].products ELSE {}
    IN  /\ RowCount < MaxRows
        /\ orders' = r.orders
        /\ products' = [i \in 1..Len(products) |->
                            IF i \in taken
                            THEN [products[i] EXCEPT !.stock = @ - 1]
                            ELSE products[i]]
        /\ response' = Response("createOrder", r)
        /\ UNCHANGED <<customers, pc, tx, logs>>

CreateOrder(input, now) ==
    LET r == CreateOrder_mutate(customers, products, orders, input, now)
    IN  /\ RowCount < MaxRows
        /\ orders' = r.orders
        /\ response' = Response("createOrder", r)
        /\ UNCHANGED <<customers, products, pc, tx, logs>>

UpdateLowStockProducts ==
    LET r == UpdateLowStockProducts_mutate(products)
    IN  /\ products' = r.products
        /\ response' = Response("updateLowStockProducts", r)
        /\ UNCHANGED <<customers, orders, pc, tx, logs>>

UpdateProductPrice(id, price) ==
    /\ id \in 1..Len(products)
    /\ products' = Product_set_price(products, id, price)
    /\ UNCHANGED <<customers, orders, response, pc, tx, logs>>

Next ==
    \/ \E input \in CustomerInputs : CreateCustomer(input)
    \/ \E input \in SeqsUpTo(CustomerInputs, MaxBatch) : BulkCreateCustomers(input)
    \/ \E input \in ProductInputs : CreateProduct(input)
    \/ \E input \in OrderInputs, now \in Times : CreateOrder(input, now)
    \/ \E id \in 1..Len(products), price \in NewPrices : UpdateProductPrice(id, price)

Spec == Init /\ [][Next]_vars

(***************************************************************************)
(* The service handling requests concurrently, one statement at a time.    *)
(* A handler outside a transaction writes straight to the tables.  Inside  *)
(* "with transaction.atomic()" its writes stay in tx[p] until the block    *)
(* exits: the commit publishes them, an exception rolls them back.  The    *)
(* tables hold what every other connection can read.                       *)
(***************************************************************************)
InFlightRows(p) ==
    CASE pc[p] = "idle" -> 0
      [] pc[p] = "cc_insert" -> 1
      [] pc[p] = "bulk" -> Len(tx[p].input)

RECURSIVE SumInFlight(_)
SumInFlight(P) ==
    IF P = {} THEN 0
    ELSE LET p == CHOOSE x \in P : TRUE
         IN  InFlightRows(p) + SumInFlight(P \ {p})

Room(n) == RowCount + SumInFlight(Procs) + n <= MaxRows

Return(p) ==
    /\ pc' = [pc EXCEPT ![p] = "idle"]
    /\ tx' = [tx EXCEPT ![p] = Idle]

\* createCustomer: the exists query and the phone check
CcCheck(p, input) ==
    LET check == CreateCustomer_check(customers, input)
    IN  /\ pc[p] = "idle"
        /\ Room(1)
        /\ IF check # "ok"
           THEN /\ response' = [op |-> "createCustomer", success |-> FALSE,
                                message |-> check]
                /\ UNCHANGED <<pc, tx>>
           ELSE /\ pc' = [pc EXCEPT ![p] = "cc_insert"]
                /\ tx' = [tx EXCEPT ![p] = [op |-> "createCustomer", input |-> input]]
                /\ UNCHANGED response
        /\ UNCHANGED <<customers, products, orders, logs>>

\* createCustomer: the INSERT
CcInsert(p) ==
    LET r == CreateCustomer_insert(customers, tx[p].input)
    IN  /\ pc[p] = "cc_insert"
        /\ customers' = r.customers
        /\ response' = Response("createCustomer", r)
        /\ Return(p)
        /\ UNCHANGED <<products, orders, logs>>

\* bulkCreateCustomers: entering the atomic block
BulkBegin(p, input) ==
    /\ pc[p] = "idle"
    /\ Room(Len(input))
    /\ pc' = [pc EXCEPT ![p] = "bulk"]
    /\ tx' = [tx EXCEPT ![p] = [op |-> "bulkCreateCustomers", input |-> input,
                                idx |-> 1, pending |-> << >>, broken |-> FALSE]]
    /\ UNCHANGED <<customers, products, orders, response, logs>>

\* bulkCreateCustomers: one iteration; it reads the committed rows and its own.
\* The rows it has inserted (pending) are also its created_customers list; the
\* error list is not read by any later step and is not kept.
BulkEntry(p) ==
    LET t  == tx[p]
        st == bulk_entry([bulk_begin(customers, 0) EXCEPT !.written = t.pending,
                                                          !.broken = t.broken],
                         t.idx, t.input[t.idx])
    IN  /\ pc[p] = "bulk"
        /\ t.idx <= Len(t.input)
        /\ tx' = [tx EXCEPT ![p] = [t EXCEPT !.idx = t.idx + 1,
                                            !.pending = st.written,
                                            !.broken = st.broken]]
        /\ UNCHANGED <<customers, products, orders, response, pc, logs>>

\* bulkCreateCustomers: leaving the atomic block, and the return
BulkCommit(p) ==
    LET t == tx[p]
    IN  /\ pc[p] = "bulk"
        /\ t.idx > Len(t.input)
        /\ customers' = IF t.broken THEN rollback(customers, t.pending)
                        ELSE commit(customers, t.pending)
        /\ response' = [op |-> "bulkCreateCustomers",
                        success |-> Len(t.pending) > 0, message |-> ""]
        /\ Return(p)
        /\ UNCHANGED <<products, orders, logs>>

InOrderTransaction(p) ==
    pc[p] \in {"co_create", "co_set", "co_total", "co_save", "co_commit"}

OpenTransactions == Cardinality({p \in Procs : InOrderTransaction(p)})

\* createOrder: the checks before the transaction
CoValidate(p, input) ==
    LET v == CreateOrder_validate(customers, products, input)
    IN  /\ pc[p] = "idle"
        /\ Len(orders) + OpenTransactions < MaxOrders
        /\ IF ~v.ok
           THEN /\ response' = [op |-> "createOrder", success |-> FALSE,
                                message |-> v.message]
                /\ UNCHANGED <<pc, tx>>
           ELSE /\ pc' = [pc EXCEPT ![p] = "co_create"]
                /\ tx' = [tx EXCEPT ![p] =
                            [op |-> "createOrder", customer |-> input.customer_id,
                             order_date |-> input.order_date,
                             products |-> v.products, order |-> None, total |-> 0]]
                /\ UNCHANGED response
        /\ UNCHANGED <<customers, products, orders, logs>>

\* createOrder: Order.objects.create  (a local that is not read again is cleared)
CoCreate(p, now) ==
    LET t == tx[p]
    IN  /\ pc[p] = "co_create"
        /\ tx' = [tx EXCEPT ![p].order =
                       Some(Order_create(t.customer, order_date_argument(t, now), now)),
                            ![p].order_date = None]
        /\ pc' = [pc EXCEPT ![p] = "co_set"]
        /\ UNCHANGED <<customers, products, orders, response, logs>>

\* createOrder: order.products.set(products)
CoSet(p) ==
    /\ pc[p] = "co_set"
    /\ tx' = [tx EXCEPT ![p].order = Some(products_set(@[1], tx[p].products)),
                        ![p].products = << >>]
    /\ pc' = [pc EXCEPT ![p] = "co_total"]
    /\ UNCHANGED <<customers, products, orders, response, logs>>

\* createOrder: order.calculate_total()
CoTotal(p) ==
    /\ pc[p] = "co_total"
    /\ tx' = [tx EXCEPT ![p].total = calculate_total(products, tx[p].order[1])]
    /\ pc' = [pc EXCEPT ![p] = "co_save"]
    /\ UNCHANGED <<customers, products, orders, response, logs>>

\* createOrder: order.save()
CoSave(p) ==
    /\ pc[p] = "co_save"
    /\ tx' = [tx EXCEPT ![p].order = Some(Order_save(@[1], tx[p].total)),
                        ![p].total = 0]
    /\ pc' = [pc EXCEPT ![p] = "co_commit"]
    /\ UNCHANGED <<customers, products, orders, response, logs>>

\* createOrder: leaving the atomic block, and the return
CoCommit(p) ==
    /\ pc[p] = "co_commit"
    /\ orders' = commit(orders, tx[p].order)
    /\ response' = [op |-> "createOrder", success |-> TRUE,
                    message |-> "Order created successfully"]
    /\ Return(p)
    /\ UNCHANGED <<customers, products, logs>>

\* createOrder: a statement of the transaction, or its commit, raises
CoAbort(p) ==
    /\ InOrderTransaction(p)
    /\ orders' = rollback(orders, tx[p].order)
    /\ response' = [op |-> "createOrder", success |-> FALSE,
                    message |-> "Error creating order"]
    /\ Return(p)
    /\ UNCHANGED <<customers, products, logs>>

ConcNext ==
    \/ \E p \in Procs, input \in CustomerInputs : CcCheck(p, input)
    \/ \E p \in Procs : CcInsert(p)
    \/ \E p \in Procs, input \in SeqsUpTo(CustomerInputs, MaxBatch) : BulkBegin(p, input)
    \/ \E p \in Procs : BulkEntry(p)
    \/ \E p \in Procs : BulkCommit(p)

\* Concurrent createCustomer and bulkCreateCustomers requests.
ConcSpec == Init /\ [][ConcNext]_vars

\* A store the sequential service reaches: one customer, two products.
SeedCustomers ==
    CreateCustomer_mutate(<< >>,
        [name |-> "Alice", email |-> "a@x.com", phone |-> GoodPhone]).customers

SeedProducts ==
    LET p1 == CreateProduct_mutate(<< >>,
                  [name |-> "Widget", price |-> 1500, stock |-> 0]).products
    IN  CreateProduct_mutate(p1, [name |-> "Widget", price |-> 2500, stock |-> 0]).products

TxInit ==
    /\ customers = SeedCustomers
    /\ products = SeedProducts
    /\ orders = << >>
    /\ response = NoResponse
    /\ pc = [p \in Procs |-> "idle"]
    /\ tx = [p \in Procs |-> Idle]
    /\ logs = EmptyLogs

TxNext ==
    \/ \E p \in Procs, input \in OrderInputs : CoValidate(p, input)
    \/ \E p \in Procs, now \in Times : CoCreate(p, now)
    \/ \E p \in Procs : CoSet(p)
    \/ \E p \in Procs : CoTotal(p)
    \/ \E p \in Procs : CoSave(p)
    \/ \E p \in Procs : CoCommit(p)
    \/ \E p \in Procs : CoAbort(p)

\* Concurrent createOrder requests, statement by statement, any of which may fail.
TxSpec == TxInit /\ [][TxNext]_vars

(***************************************************************************)
(* The service with its low-stock sweep, one request at a time: products   *)
(* of several stock levels, below, at and above the threshold, and every   *)
(* mutation.                                                               *)
(***************************************************************************)
RestockInputs == [name : {"Widget"}, price : {1500}, stock : {-1, 3, 9, 10, 12}]

StockInit ==
    /\ customers = SeedCustomers
    /\ products = << >>
    /\ orders = << >>
    /\ response = NoResponse
    /\ pc = [p \in Procs |-> "idle"]
    /\ tx = [p \in Procs |-> Idle]
    /\ logs = EmptyLogs

StockNext ==
    \/ \E input \in CustomerInputs : CreateCustomer(input)
    \/ \E input \in SeqsUpTo(CustomerInputs, MaxBatch) : BulkCreateCustomers(input)
    \/ \E input \in RestockInputs : CreateProduct(input)
    \/ \E input \in AnyOrderInputs, now \in Times : CreateOrder(input, now)
    \/ UpdateLowStockProducts

StockSpec == StockInit /\ [][StockNext]_vars

(***************************************************************************)
(* The service over a store that may fail: the INSERT of a handler, a      *)
(* statement of createOrder's transaction, or the commit of an atomic      *)
(* block raises a database error.  Each X_call is X.mutate with the place, *)
(* if any, where the store raises; what it returns is what the handler's   *)
(* except clause returns, or, where no except clause encloses the          *)
(* statement, the exception itself.                                        *)
(***************************************************************************)
ExceptionRaised == "exception raised"    \* the call did not return: it raised

\* CreateCustomer.mutate: the except clause
CreateCustomer_call(cs, input, insert_fails) ==
    IF insert_fails /\ CreateCustomer_check(cs, input) = "ok"
    THEN [success |-> FALSE, message |-> "Error creating customer",
          customer |-> 0, customers |-> cs]
    ELSE CreateCustomer_mutate(cs, input)

\* CreateProduct.mutate: the except clause
CreateProduct_call(ps, input, insert_fails) ==
    IF insert_fails /\ input.price > 0 /\ input.stock >= 0
    THEN [success |-> FALSE, message |-> "Error creating product",
          product |-> 0, products |-> ps]
    ELSE CreateProduct_mutate(ps, input)

\* CreateOrder.mutate: the except clause, around the atomic block as well
CreateOrder_call(cs, ps, os, input, now, block_fails) ==
    LET r == CreateOrder_mutate(cs, ps, os, input, now)
    IN  IF block_fails /\ r.success
        THEN [success |-> FALSE, message |-> "Error creating order",
              arg |-> 0, order |-> 0,
              orders |-> rollback(os, <<r.orders[r.order]>>)]
        ELSE r

\* BulkCreateCustomers.mutate: "with transaction.atomic()" is in no try, so the
\* error of its COMMIT leaves mutate as an exception, the transaction rolled back.
bulk_commit_error(st) ==
    [customers_created |-> << >>, errors |-> None, success |-> FALSE,
     message |-> ExceptionRaised, customers |-> rollback(st.rows, st.written)]

BulkCreateCustomers_call(cs, input, fail_at, commit_fails) ==
    LET st == bulk_loop(bulk_begin(cs, fail_at), input, 1)
    IN  IF commit_fails /\ ~st.broken
        THEN bulk_commit_error(st)
        ELSE [message |-> ""] @@ bulk_return(st)

FaultyCreateCustomer(input, insert_fails) ==
    LET r == CreateCustomer_call(customers, input, insert_fails)
    IN  /\ RowCount < MaxRows
        /\ customers' = r.customers
        /\ response' = Response("createCustomer", r)
        /\ UNCHANGED <<products, orders, pc, tx, logs>>

FaultyBulkCreateCustomers(input, fail_at, commit_fails) ==
    LET r == BulkCreateCustomers_call(customers, input, fail_at, commit_fails)
    IN  /\ RowCount + Len(input) <= MaxRows
        /\ customers' = r.customers
        /\ response' = Response("bulkCreateCustomers", r)
        /\ UNCHANGED <<products, orders, pc, tx, logs>>

FaultyCreateProduct(input, insert_fails) ==
    LET r == CreateProduct_call(products, input, insert_fails)
    IN  /\ RowCount < MaxRows
        /\ products' = r.products
        /\ response' = Response("createProduct", r)
        /\ UNCHANGED <<customers, orders, pc, tx, logs>>

FaultyCreateOrder(input, now, block_fails) ==
    LET r == CreateOrder_call(customers, products, orders, input, now, block_fails)
    IN  /\ RowCount < MaxRows
        /\ orders' = r.orders
        /\ response' = Response("createOrder", r)
        /\ UNCHANGED <<customers, products, pc, tx, logs>>

FaultNext ==
    \/ \E input \in CustomerInputs, f \in BOOLEAN : FaultyCreateCustomer(input, f)
    \/ \E input \in SeqsUpTo(CustomerInputs, MaxBatch), k \in 0..MaxBatch, f \in BOOLEAN :
           FaultyBulkCreateCustomers(input, k, f)
    \/ \E input \in ProductInputs, f \in BOOLEAN : FaultyCreateProduct(input, f)
    \/ \E input \in OrderInputs, now \in Times, f \in BOOLEAN :
           FaultyCreateOrder(input, now, f)

FaultSpec == Init /\ [][FaultNext]_vars

(***************************************************************************)
(* The scheduled jobs of crm/cron.py, crm/tasks.py and                     *)
(* crm/cron_jobs/send_order_reminders.py.  A job posts one request to the  *)
(* GraphQL endpoint and appends lines to its log file.  What the endpoint  *)
(* answers is the environment's choice, and so is whether open(path, 'a')  *)
(* succeeds (logs.writable: the directory may be read-only, the disk       *)
(* full).  A job is an operator from these two to the lines it appends and *)
(* the way it ends (returned, or raised an exception).  A line is          *)
(* [text, status]; timestamps are left out.                                *)
(***************************************************************************)
Line(text, status) == [text |-> text, status |-> status]

\* What requests.post and response.json() can give the heartbeat probe.
HeartbeatProbes ==
    {"hello", "no hello", "data null", "not json", "http 500",
     "timeout", "connection failed", "other exception"}

\* (variant: there is no "except Exception" clause after the two specific ones)
heartbeat_probe_no_catch_all(probe) ==
    CASE probe = "hello"             -> [raised |-> FALSE, status |-> " (GraphQL: OK)"]
      [] probe = "no hello"          -> [raised |-> FALSE, status |-> " (GraphQL: No response)"]
      [] probe = "http 500"          -> [raised |-> FALSE, status |-> " (GraphQL: HTTP 500)"]
      [] probe = "timeout"           -> [raised |-> FALSE, status |-> " (GraphQL: Timeout)"]
      [] probe = "connection failed" -> [raised |-> FALSE,
                                         status |-> " (GraphQL: Connection failed)"]
      [] OTHER                       -> [raised |-> TRUE, status |-> ""]

\* log_crm_heartbeat: the probe and its except clauses.  A body that is not
\* JSON, or whose "data" is null, raises inside the try and is caught by the
\* last clause like any other exception.
heartbeat_probe(probe) ==
    CASE probe = "hello"             -> [raised |-> FALSE, status |-> " (GraphQL: OK)"]
      [] probe = "no hello"          -> [raised |-> FALSE, status |-> " (GraphQL: No response)"]
      [] probe = "http 500"          -> [raised |-> FALSE, status |-> " (GraphQL: HTTP 500)"]
      [] probe = "timeout"           -> [raised |-> FALSE, status |-> " (GraphQL: Timeout)"]
      [] probe = "connection failed" -> [raised |-> FALSE,
                                         status |-> " (GraphQL: Connection failed)"]
      [] OTHER                       -> [raised |-> FALSE, status |-> " (GraphQL: error)"]

\* log_crm_heartbeat: the write is in a try of its own, whose except clause prints.
log_crm_heartbeat(probe, log_ok) ==
    LET p == heartbeat_probe(probe)
    IN  IF p.raised THEN [lines |-> << >>, raised |-> TRUE]
        ELSE IF log_ok
        THEN [lines |-> <<Line("CRM is alive", p.status)>>, raised |-> FALSE]
        ELSE [lines |-> << >>, raised |-> FALSE]

LogLines ==
    Len(logs.heartbeat) + Len(logs.low_stock) + Len(logs.order_reminders)
        + Len(logs.report)

\* How a job ended, as seen by the scheduler.
JobExit(job, r) ==
    [op |-> job, success |-> ~r.raised,
     message |-> IF r.raised THEN ExceptionRaised ELSE ""]

Heartbeat(probe) ==
    LET r == log_crm_heartbeat(probe, logs.writable)
    IN  /\ LogLines < MaxLogLines
        /\ logs' = [logs EXCEPT !.heartbeat = @ \o r.lines]
        /\ response' = JobExit("log_crm_heartbeat", r)
        /\ UNCHANGED <<customers, products, orders, pc, tx>>

\* An except clause of a job that logs: it opens the log file and appends one
\* error line to what the job has written so far.  The open is in no try of its
\* own: when it fails, its exception leaves the job.
except_clause_logs(writable, written, text) ==
    IF writable
    THEN [lines |-> Append(written, Line(text, "")), raised |-> FALSE]
    ELSE [lines |-> written, raised |-> TRUE]

\* What the endpoint can answer to the updateLowStockProducts request.
LowStockAnswers ==
    {"timeout", "connection failed", "other exception", "http 400", "not json",
     "data null", "no data", "result null", "products null", "no products",
     "one product"}

LowStockHeader ==
    <<Line("====", ""), Line("Low Stock Update Started", ""), Line("====", "")>>

\* update_low_stock, the low-stock sweep.  The header is written once the request
\* has returned; a body that cannot be read as the code expects raises inside
\* the try and reaches the last except clause, after the lines already written.
update_low_stock(answer, writable) ==
    CASE answer = "timeout" ->
            except_clause_logs(writable, << >>, "ERROR: Request timeout")
      [] answer = "connection failed" ->
            except_clause_logs(writable, << >>, "ERROR: Connection error")
      [] answer = "other exception" ->
            except_clause_logs(writable, << >>, "ERROR: Unexpected error")
      [] answer \notin {"timeout", "connection failed", "other exception"}
            /\ ~writable ->      \* the open for the header raises
            except_clause_logs(writable, << >>, "ERROR: Unexpected error")
      [] answer = "http 400" /\ writable ->
            [lines |-> LowStockHeader \o
                       <<Line("ERROR: GraphQL request failed", ""), Line("Response", "")>>,
             raised |-> FALSE]
      [] answer \in {"not json", "data null", "result null"} /\ writable ->
            except_clause_logs(writable, LowStockHeader, "ERROR: Unexpected error")
      [] answer = "products null" /\ writable ->
            except_clause_logs(writable,
                LowStockHeader \o <<Line("Status: SUCCESS", ""), Line("Message", "")>>,
                "ERROR: Unexpected error")
      [] answer = "no data" /\ writable ->
            [lines |-> LowStockHeader \o
                       <<Line("Status: FAILED", ""), Line("Message", ""),
                         Line("Products Updated: 0", ""),
                         Line("No products required restocking.", ""), Line("----", "")>>,
             raised |-> FALSE]
      [] answer = "no products" /\ writable ->
            [lines |-> LowStockHeader \o
                       <<Line("Status: SUCCESS", ""), Line("Message", ""),
                         Line("Products Updated: 0", ""),
                         Line("No products required restocking.", ""), Line("----", "")>>,
             raised |-> FALSE]
      [] answer = "one product" /\ writable ->
            [lines |-> LowStockHeader \o
                       <<Line("Status: SUCCESS", ""), Line("Message", ""),
                         Line("Products Updated: 1", ""),
                         Line("Updated Products:", ""), Line("----", ""),
                         Line("ID | Name | New Stock", ""), Line("----", "")>>,
             raised |-> FALSE]

\* What get_pending_orders returns: None after any exception of the client, or
\* the data of the answer.
ReminderAnswers ==
    {"transport error", "orders null", "no orders", "one order", "customer null"}

\* send_order_reminders.main with log_order_reminders.  An order whose customer
\* is null raises inside log_order_reminders, after the first line is written,
\* and reaches main's except clause.
send_order_reminders(answer, writable) ==
    CASE ~writable ->       \* the first open raises, and so does the except clause's
            except_clause_logs(writable, << >>, "Unexpected error")
      [] answer = "transport error" /\ writable ->
            [lines |-> <<Line("Error: Failed to retrieve orders", "")>>,
             raised |-> FALSE]
      [] answer \in {"orders null", "no orders"} /\ writable ->
            [lines |-> <<Line("No pending orders found in the last 7 days", "")>>,
             raised |-> FALSE]
      [] answer = "one order" /\ writable ->
            [lines |-> <<Line("Processing 1 pending orders", ""), Line("Order ID", "")>>,
             raised |-> FALSE]
      [] answer = "customer null" /\ writable ->
            except_clause_logs(writable, <<Line("Processing 1 pending orders", "")>>,
                               "Unexpected error")

\* What the endpoint can answer to the report query.
ReportAnswers ==
    {"timeout", "connection failed", "other exception", "http 400", "not json",
     "data null", "customers null", "total null", "report"}

\* generate_crm_report, the weekly report.  Every except clause logs.
generate_crm_report(answer, writable) ==
    CASE answer \in {"timeout", "connection failed", "not json"} ->
            except_clause_logs(writable, << >>, "ERROR: Request error")
      [] answer = "http 400" /\ writable ->
            [lines |-> <<Line("ERROR: GraphQL request failed", "")>>, raised |-> FALSE]
      [] answer = "report" /\ writable ->
            [lines |-> <<Line("Report: customers, orders, revenue", "")>>,
             raised |-> FALSE]
      [] OTHER ->
            except_clause_logs(writable, << >>, "ERROR: Unexpected error")

LowStockSweep(answer) ==
    LET r == update_low_stock(answer, logs.writable)
    IN  /\ LogLines < MaxLogLines
        /\ logs' = [logs EXCEPT !.low_stock = @ \o r.lines]
        /\ response' = JobExit("update_low_stock", r)
        /\ UNCHANGED <<customers, products, orders, pc, tx>>

OrderReminders(answer) ==
    LET r == send_order_reminders(answer, logs.writable)
    IN  /\ LogLines < MaxLogLines
        /\ logs' = [logs EXCEPT !.order_reminders = @ \o r.lines]
        /\ response' = JobExit("send_order_reminders", r)
        /\ UNCHANGED <<customers, products, orders, pc, tx>>

WeeklyReport(answer) ==
    LET r == generate_crm_report(answer, logs.writable)
    IN  /\ LogLines < MaxLogLines
        /\ logs' = [logs EXCEPT !.report = @ \o r.lines]
        /\ response' = JobExit("generate_crm_report", r)
        /\ UNCHANGED <<customers, products, orders, pc, tx>>

\* The environment makes the log files writable or not.
SetLogsWritable(b) ==
    /\ logs.writable # b
    /\ logs' = [logs EXCEPT !.writable = b]
    /\ UNCHANGED <<customers, products, orders, response, pc, tx>>

JobNext ==
    \/ \E probe \in HeartbeatProbes : Heartbeat(probe)
    \/ \E answer \in LowStockAnswers : LowStockSweep(answer)
    \/ \E answer \in ReminderAnswers : OrderReminders(answer)
    \/ \E answer \in ReportAnswers : WeeklyReport(answer)
    \/ \E b \in BOOLEAN : SetLogsWritable(b)

JobSpec == Init /\ [][JobNext]_vars

(***************************************************************************)
(* Properties.  A property of a mutation is stated over every input in     *)
(* every reachable store: the mutation's operator gives the response and   *)
(* the store the call leaves.                                              *)
(***************************************************************************)
EmailStored(email) == \E i \in 1..Len(customers) : customers[i].email = email

\* The sum of the prices in table ps of the products whose ids are in S.
RECURSIVE PriceSum(_, _)
PriceSum(ps, S) ==
    IF S = {} THEN 0
    ELSE LET id == CHOOSE x \in S : \A y \in S : x >= y
         IN  PriceSum(ps, S \ {id}) + ps[id].price

Range(f) == {f[i] : i \in DOMAIN f}

\* C1: createCustomer with an email that a stored customer already has returns
\* success=false with no customer, and leaves the stored customers as they were.
C1_DuplicateEmailRejected ==
    \A input \in CustomerInputs :
        EmailStored(input.email) =>
            LET r == CreateCustomer_mutate(customers, input)
            IN  /\ ~r.success
                /\ r.customer = 0
                /\ r.customers = customers

\* A createCustomer call has just been refused for a taken email, with two
\* customers stored.
C1_Witness ==
    /\ response.op = "createCustomer"
    /\ response.message = "Email already exists"
    /\ ~response.success
    /\ Len(customers) = 2

\* C2: under any interleaving of concurrent createCustomer and
\* bulkCreateCustomers calls, no two stored customers have the same email.
C2_EmailsUnique ==
    \A i, j \in 1..Len(customers) :
        i # j => customers[i].email # customers[j].email

\* C3: createCustomer with a non-empty name, an email not in the store and a phone
\* that is omitted or matches the pattern returns success=true with the created
\* customer, and getCustomer of the returned id gives the same name, email, phone.
C3_ValidCustomerCreated ==
    \A input \in CustomerInputs :
        ( /\ input.name # ""
          /\ ~EmailStored(input.email)
          /\ (input.phone = NoPhone \/ PhoneMatches(input.phone)) ) =>
            LET r == CreateCustomer_mutate(customers, input)
            IN  /\ r.success
                /\ r.customer # 0
                /\ resolve_customer(r.customers, r.customer) =
                       Some([name |-> input.name, email |-> input.email,
                             phone |-> input.phone])

\* The entries of a batch that C4 says are created: the phone is omitted or
\* well-formed, and the email is neither stored nor that of an earlier created entry.
RECURSIVE C4_Expected(_, _)
C4_Expected(batch, k) ==
    IF k = 0 THEN {}
    ELSE LET E == C4_Expected(batch, k - 1)
         IN  IF /\ (batch[k].phone = NoPhone \/ PhoneMatches(batch[k].phone))
                /\ ~EmailStored(batch[k].email)
                /\ \A j \in E : batch[j].email # batch[k].email
             THEN E \cup {k} ELSE E

C4_ErrorList(r) == IF r.errors = None THEN << >> ELSE r.errors[1]

\* C4: bulkCreateCustomers goes through every entry; an entry is created iff its
\* phone is omitted or well-formed and its email is neither stored before the call
\* nor that of an earlier created entry; every other entry gives exactly one error
\* and no customer; success is true iff at least one customer was created.
C4_BulkPerEntry ==
    \A batch \in SeqsUpTo(CustomerInputs, MaxBatch) :
        LET r == BulkCreateCustomers_mutate(customers, batch)
            E == C4_Expected(batch, Len(batch))
            errs == C4_ErrorList(r)
        IN  /\ Len(r.customers_created) = Cardinality(E)
            /\ Len(r.customers) = Len(customers) + Cardinality(E)
            /\ SubSeq(r.customers, 1, Len(customers)) = customers
            /\ {r.customers[i].email : i \in (Len(customers) + 1)..Len(r.customers)}
                   = {batch[k].email : k \in E}
            /\ Len(errs) = Len(batch) - Cardinality(E)
            /\ {errs[i].idx : i \in 1..Len(errs)} = (1..Len(batch)) \ E
            /\ r.success = (Cardinality(E) > 0)

\* C5: a createOrder that fails validation (no product ids, or an id that does not
\* resolve, wherever it stands in the list) returns success=false and leaves the
\* orders and their product sets as they were; an order that is created holds
\* every requested product, never a strict subset.
C5_AllOrNothing ==
    \A input \in OrderInputs, now \in Times :
        LET r == CreateOrder_mutate(customers, products, orders, input, now)
            invalid == \/ input.product_ids = << >>
                       \/ \E k \in 1..Len(input.product_ids) :
                              input.product_ids[k] \notin 1..Len(products)
        IN  /\ invalid => ~r.success /\ r.order = 0 /\ r.orders = orders
            /\ r.success =>
                   /\ r.order = Len(orders) + 1
                   /\ Len(r.orders) = Len(orders) + 1
                   /\ SubSeq(r.orders, 1, Len(orders)) = orders
                   /\ r.orders[r.order].products = Range(input.product_ids)

\* A createOrder call has just been refused for an unresolved product id while two
\* products are stored, so that a list can mix ids that resolve with one that does not.
C5_Witness ==
    /\ response.op = "createOrder"
    /\ response.message = "Product does not exist"
    /\ Len(products) = 2
    /\ Len(customers) >= 1
    /\ \E input \in OrderInputs :
           /\ input.customer_id \in 1..Len(customers)
           /\ Len(input.product_ids) = 2
           /\ input.product_ids[1] \in 1..Len(products)
           /\ input.product_ids[2] \notin 1..Len(products)
           /\ \A now \in Times :
                  ~CreateOrder_mutate(customers, products, orders, input, now).success

\* The total of a new order is the sum of the prices its products have when the
\* order is created.
C6_TotalAtCreation ==
    \A input \in OrderInputs, now \in Times :
        LET r == CreateOrder_mutate(customers, products, orders, input, now)
        IN  r.success =>
                r.orders[r.order].total_amount =
                    PriceSum(products, r.orders[r.order].products)

\* No step, a price change included, removes a stored order or changes its total.
C6_TotalKept ==
    \A i \in 1..Len(orders) :
        /\ i <= Len(orders')
        /\ orders'[i].total_amount = orders[i].total_amount

\* C6: a successful createOrder persists as total_amount the sum of the prices, at
\* creation time, of the order's products, and whatever happens later (a change of
\* a product's price included) the order's total_amount keeps that value.
C6_TotalFixedAtCreation ==
    /\ []C6_TotalAtCreation
    /\ [][C6_TotalKept]_vars

\* An order whose total is no longer the sum of its products' current prices: a
\* price was changed after the order was created, and the total stayed.
C6_Witness ==
    \E i \in 1..Len(orders) :
        /\ orders[i].total_amount > 0
        /\ orders[i].total_amount # PriceSum(products, orders[i].products)

\* C7: with the writes of createOrder taken one at a time, interleaved with other
\* requests and failing at any point, every order a reader can see has a product
\* set that is not empty and a total_amount equal to the sum of its products'
\* prices.  (Under TxSpec no price changes, so the prices are those at creation.)
C7_NoPartialOrderVisible ==
    \A i \in 1..Len(orders) :
        /\ orders[i].products # {}
        /\ orders[i].total_amount = PriceSum(products, orders[i].products)

\* A transaction has failed and been rolled back, another has its row inserted with
\* the default total and no total written yet, and a committed order is stored.
C7_Witness ==
    /\ response.op = "createOrder"
    /\ response.message = "Error creating order"
    /\ Len(orders) >= 1
    /\ \E p \in Procs :
           /\ pc[p] \in {"co_set", "co_total", "co_save"}
           /\ tx[p].order # None
           /\ tx[p].order[1].total_amount = 0

\* C8: the order_date of a created order is the orderDate of the input when one is
\* given, and the creation time only when none is given.
C8_OrderDateFromInput ==
    \A input \in OrderInputs, now \in Times :
        LET r == CreateOrder_mutate(customers, products, orders, input, now)
        IN  r.success =>
                r.orders[r.order].order_date =
                    IF input.order_date # None THEN input.order_date[1] ELSE now

\* C9: every stored product has price > 0 and stock >= 0; createProduct with
\* price <= 0 or stock < 0 returns success=false and stores nothing.
C9_PricePositiveStockNonNegative ==
    /\ \A i \in 1..Len(products) :
           products[i].price > 0 /\ products[i].stock >= 0
    /\ \A input \in ProductInputs :
           (input.price <= 0 \/ input.stock < 0) =>
               LET r == CreateProduct_mutate(products, input)
               IN  ~r.success /\ r.product = 0 /\ r.products = products

\* C10: every stored order references a stored customer and has at least one
\* product, each of them stored.
C10_OrderReferencesExist ==
    \A i \in 1..Len(orders) :
        /\ orders[i].customer \in 1..Len(customers)
        /\ orders[i].products # {}
        /\ orders[i].products \subseteq 1..Len(products)

\* An order with two products has been created.
C10_Witness ==
    /\ response.op = "createOrder"
    /\ response.success
    /\ \E i \in 1..Len(orders) : Cardinality(orders[i].products) = 2

\* The products of table ps that updateLowStockProducts is to update.
C11_Low(ps) == {i \in 1..Len(ps) : ps[i].stock < 10}

\* The stock of every low product has grown by exactly 10, every other product and
\* the size of the table are as before; the result lists exactly the low products,
\* each once, with the stock it now has; success is true, with or without a match.
C11_Restock ==
    LET r == UpdateLowStockProducts_mutate(products)
        L == C11_Low(products)
    IN  /\ r.success
        /\ Len(r.products) = Len(products)
        /\ \A i \in 1..Len(products) :
               r.products[i] =
                   IF i \in L THEN [products[i] EXCEPT !.stock = products[i].stock + 10]
                   ELSE products[i]
        /\ Len(r.updated) = Cardinality(L)
        /\ {r.updated[k].id : k \in 1..Len(r.updated)} = L
        /\ \A k \in 1..Len(r.updated) :
               r.updated[k].stock = r.products[r.updated[k].id].stock
        /\ r.message = ToString(Cardinality(L))

\* A step of updateLowStockProducts leaves the customers and the orders as they were.
C11_Frame ==
    UpdateLowStockProducts => customers' = customers /\ orders' = orders

\* C11: in any store state updateLowStockProducts adds exactly 10 to the stock of
\* every product whose stock is below 10, leaves every other product and every
\* customer and order unchanged, returns exactly the updated products with their
\* new stock, and returns success=true also when no product matched.
C11_LowStockRestocked ==
    /\ []C11_Restock
    /\ [][C11_Frame]_vars

\* updateLowStockProducts has just answered that it restocked one product, with a
\* product of stock 13 and one of stock 12 stored (A(3), B(12) before the call)
\* and an order placed.
C11_Witness ==
    /\ response.op = "updateLowStockProducts"
    /\ response.success
    /\ response.message = "1"
    /\ Len(products) = 2
    /\ {products[i].stock : i \in 1..Len(products)} = {12, 13}
    /\ Len(orders) >= 1

\* Every call has returned a result: none has ended in an exception.
C12_Returned == response.message # ExceptionRaised

\* A call that reports success has stored what it reports: a call whose writes
\* the store refused or rolled back reports success=false.
C12_FailureReported == response'.success => RowCount' > RowCount

\* C12: no mutation lets an exception escape; on every path, a store error raised
\* by a write or by the commit of its transaction included, the call returns a
\* result with a success flag and a message, and success is false on failure.
C12_NoExceptionEscapes ==
    /\ []C12_Returned
    /\ [][C12_FailureReported]_vars

\* The status suffix that goes with each outcome of the probe.
C13_Suffix(probe) ==
    CASE probe = "hello"             -> " (GraphQL: OK)"
      [] probe = "no hello"          -> " (GraphQL: No response)"
      [] probe = "http 500"          -> " (GraphQL: HTTP 500)"
      [] probe = "timeout"           -> " (GraphQL: Timeout)"
      [] probe = "connection failed" -> " (GraphQL: Connection failed)"
      [] probe \in {"data null", "not json", "other exception"} -> " (GraphQL: error)"

\* A step of the heartbeat job with probe outcome probe, the log being writable,
\* ends without an exception and appends exactly one line, which reads
\* "CRM is alive" followed by the status of that outcome.
C13_Step(probe) ==
    (Heartbeat(probe) /\ logs.writable) =>
        /\ response'.success
        /\ response'.message # ExceptionRaised
        /\ Len(logs'.heartbeat) = Len(logs.heartbeat) + 1
        /\ SubSeq(logs'.heartbeat, 1, Len(logs.heartbeat)) = logs.heartbeat
        /\ logs'.heartbeat[Len(logs'.heartbeat)].text = "CRM is alive"
        /\ logs'.heartbeat[Len(logs'.heartbeat)].status = C13_Suffix(probe)

\* C13: every invocation of the heartbeat job appends exactly one "CRM is alive"
\* line to the heartbeat log whatever the outcome of the liveness probe; only the
\* status suffix of the line depends on that outcome.
C13_HeartbeatAlwaysLogged ==
    [][\A probe \in HeartbeatProbes : C13_Step(probe)]_vars

\* The heartbeat log holds the lines of a probe that succeeded, of one that timed
\* out and of one whose answer could not be read.
C13_Witness ==
    /\ response.op = "log_crm_heartbeat"
    /\ {logs.heartbeat[i].status : i \in 1..Len(logs.heartbeat)} =
           {" (GraphQL: OK)", " (GraphQL: Timeout)", " (GraphQL: error)"}

\* A step of one of the three jobs has ended without an exception and has added
\* at least one line to that job's log, keeping the lines that were there.
C14_Step ==
    /\ (\E a \in LowStockAnswers : LowStockSweep(a)) =>
           /\ response'.message # ExceptionRaised
           /\ Len(logs'.low_stock) > Len(logs.low_stock)
    /\ (\E a \in ReminderAnswers : OrderReminders(a)) =>
           /\ response'.message # ExceptionRaised
           /\ Len(logs'.order_reminders) > Len(logs.order_reminders)
    /\ (\E a \in ReportAnswers : WeeklyReport(a)) =>
           /\ response'.message # ExceptionRaised
           /\ Len(logs'.report) > Len(logs.report)

\* C14: every invocation of the low-stock sweep, the order reminders and the
\* weekly report ends without raising an exception and appends at least one line
\* to the job's log, whatever the API call gives and whatever the log write does.
C14_JobsAlwaysLog == [][C14_Step]_vars

\* The first id of the list that is not the id of a stored product.
C15_FirstUnresolved(ids) ==
    ids[CHOOSE k \in 1..Len(ids) :
            /\ ids[k] \notin 1..Len(products)
            /\ \A j \in 1..(k - 1) : ids[j] \in 1..Len(products)]

\* C15: createOrder reports its failures in a fixed order: a customer id that does
\* not resolve gives the customer failure whatever productIds holds; otherwise an
\* empty productIds gives the no-products failure; otherwise the failure names the
\* first id of productIds that does not resolve, even when later ones do not either.
C15_FailurePrecedence ==
    \A input \in AnyOrderInputs, now \in Times :
        LET r == CreateOrder_mutate(customers, products, orders, input, now)
            ids == input.product_ids
            noCustomer == input.customer_id \notin 1..Len(customers)
            unresolved == \E k \in 1..Len(ids) : ids[k] \notin 1..Len(products)
        IN  /\ noCustomer =>
                   /\ ~r.success
                   /\ r.message = "Customer does not exist"
                   /\ r.arg = input.customer_id
            /\ (~noCustomer /\ ids = << >>) =>
                   /\ ~r.success
                   /\ r.message = "At least one product must be provided"
            /\ (~noCustomer /\ unresolved) =>
                   /\ ~r.success
                   /\ r.message = "Product does not exist"
                   /\ r.arg = C15_FirstUnresolved(ids)
            /\ ~r.success => r.orders = orders

\* A createOrder call has just been refused for a product id, in a store with a
\* customer and a product where a list can name two different ids that do not
\* resolve after one that does.
C15_Witness ==
    /\ response.op = "createOrder"
    /\ response.message = "Product does not exist"
    /\ Len(customers) >= 1
    /\ Len(products) >= 1
    /\ \E input \in AnyOrderInputs :
           /\ input.customer_id \in 1..Len(customers)
           /\ Len(input.product_ids) = 2
           /\ input.product_ids[1] = Len(products) + 1
           /\ input.product_ids[2] = 0
           /\ \A now \in Times :
                  CreateOrder_mutate(customers, products, orders, input, now).arg
                      = Len(products) + 1

\* C16: when productIds names a stored product more than once, the order created
\* is associated with that product once and its total_amount counts the product's
\* price once: the total is the sum over the distinct products of the order.
C16_DuplicateIdsCountOnce ==
    \A input \in AnyOrderInputs, now \in Times :
        LET r == CreateOrder_mutate(customers, products, orders, input, now)
            ids == input.product_ids
            repeated == \E i, j \in 1..Len(ids) : i # j /\ ids[i] = ids[j]
        IN  (r.success /\ repeated) =>
                /\ r.orders[r.order].products = Range(ids)
                /\ Cardinality(r.orders[r.order].products) < Len(ids)
                /\ r.orders[r.order].total_amount = PriceSum(products, Range(ids))
                /\ r.arg = PriceSum(products, Range(ids))

\* An order of one product has just been created in a store where two products
\* are stored, so that the list naming that product twice is among the inputs
\* that give this order.
C16_Witness ==
    /\ response.op = "createOrder"
    /\ response.success
    /\ Len(products) >= 2
    /\ \E i \in 1..Len(orders), id \in 1..Len(products) :
           /\ orders[i].products = {id}
           /\ products[id].price > 0
           /\ orders[i].total_amount = products[id].price
           /\ \E input \in AnyOrderInputs :
                  /\ input.product_ids = <<id, id>>
                  /\ input.customer_id = orders[i].customer
                  /\ \A now \in Times :
                         CreateOrder_mutate(customers, products, orders, input, now).success

\* A step that ends a createOrder call, whether the call succeeded or failed,
\* leaves every product (its stock and its price) and every customer as they were.
C17_CreateOrderFrame ==
    response'.op = "createOrder" =>
        /\ products' = products
        /\ customers' = customers

\* No step removes a customer, a product or an order, or lowers a product's stock.
C17_NothingRemoved ==
    /\ Len(customers') >= Len(customers)
    /\ Len(products') >= Len(products)
    /\ Len(orders') >= Len(orders)
    /\ \A i \in 1..Len(customers) : customers'[i] = customers[i]
    /\ \A i \in 1..Len(products) : products'[i].stock >= products[i].stock
    /\ \A i \in 1..Len(orders) : orders'[i].customer = orders[i].customer

\* C17: createOrder, succeeding or failing, leaves every product's stock and price
\* and every customer unchanged; over any sequence of the mutations the stock of a
\* stored product never decreases and no customer, product or order is removed.
C17_CreateOrderFrameEffect ==
    [][C17_CreateOrderFrame /\ C17_NothingRemoved]_vars

\* An order has just been created on a product that the sweep had restocked
\* before: its stock is still the restocked one.
C17_Witness ==
    /\ response.op = "createOrder"
    /\ response.success
    /\ \E i \in 1..Len(orders) :
           \E id \in orders[i].products : products[id].stock \in {13, 19}

====
